---- MODULE Spec2Model ----
(***************************************************************************)
(* A model of the ACNH API design service: the tile count of an uploaded   *)
(* raster, the design code <-> design id transform, the rendering of a     *)
(* nibble-packed layer, the streamed design archive, the error kinds with  *)
(* their JSON form, the upload of a basic design with its streamed         *)
(* results, and the routes that fetch a design from the remote service.    *)
(*                                                                         *)
(* Every operation is one request handled from start to end; `unit` names  *)
(* the part of the service the request belongs to, `op` the operation that *)
(* has run ("idle" before it runs) and `ret` what it returned or raised.   *)
(***************************************************************************)
EXTENDS Integers, Sequences, FiniteSets, TLC

VARIABLES
    unit,          \* which part of the service this request exercises
    op,            \* the operation that has run, "idle" before it has
    ret,           \* what the operation returned or raised
    img,           \* <<width, height>> of the uploaded / stored raster (img.size)
    pattern_code,  \* the design code handed to design_id, a sequence of characters
    id,            \* the design id handed to design_code, a sequence of limbs
    raw_image,     \* the fetched body: [mPalette |-> ..., mData |-> ...]
    layer_i,       \* the layer of raw_image.mData a render call is about
    ex,            \* the exception handed to handle_acnh_exception
    args,          \* request.args of a design_archive request
    type_code,     \* data['mMeta']['mMtUse'] of the design the service holds
    files,         \* request.files of an upload: slot name -> the file sent
    image_name,    \* the name of the design: the image_name argument of an upload
    results,       \* what designs_db.create_image yields for an upload, in order
    pc,            \* position of a view / of the generator it streams
    emitted,       \* the parts of a streamed response sent so far
    pending,       \* what the generator a response streams from has not yielded yet
    design,        \* the design an upload has built, None before it has
    requests       \* the requests sent to the remote service so far

vars == <<unit, op, ret, img, pattern_code, id, raw_image, layer_i, ex, args, type_code,
          files, image_name, results, pc, emitted, pending, design, requests>>

\* what a request is given, and the state of a streamed response
inputs == <<unit, img, pattern_code, id, raw_image, layer_i, ex, args, type_code,
            files, image_name, results>>
stream == <<pc, emitted, pending, design, requests>>

-----------------------------------------------------------------------------
(* Results of a call. *)

NoRet == [kind |-> "none"]
Return(v) == [kind |-> "return", value |-> v]
Raise(e) == [kind |-> "raise", error |-> e]
None == [none |-> TRUE]

(* Values of the variables a request does not use. *)
NoImg == <<0, 0>>
NoRawImage == [mPalette |-> <<>>, mData |-> <<>>]

TilesIdle == img = NoImg
CodeIdle == pattern_code = <<>> /\ id = <<>>
RenderIdle == raw_image = NoRawImage /\ layer_i = 0
ErrorsIdle == ex = None
ArchiveIdle ==
    /\ args = <<>> /\ type_code = ""
    /\ pc = "idle" /\ emitted = <<>> /\ pending = <<>> /\ requests = <<>>
CreateIdle == files = <<>> /\ image_name = None /\ results = <<>> /\ design = None

-----------------------------------------------------------------------------
(* acnh/designs/format.py: the constants errors.py and render.py import. *)

WIDTH == 32
HEIGHT == 32
MAX_DESIGN_TILES == 16

-----------------------------------------------------------------------------
(* Tiling: errors.py num_tiles and TiledImageTooBigError. *)

MaxWidth == 320
MaxHeight == 96

\* width // WIDTH * height // HEIGHT: // and * share one precedence level and
\* associate to the left, so this is ((width // WIDTH) * height) // HEIGHT.
num_tiles(width, height) == ((width \div WIDTH) * height) \div HEIGHT

\* TiledImageTooBigError(img): __init__ sets self.num_tiles
TiledImageTooBigError(image) ==
    [cls |-> "TiledImageTooBigError", num_tiles |-> num_tiles(image[1], image[2])]

\* TiledImageTooBigError.validate(img)
validate ==
    /\ unit = "tiles" /\ op = "idle"
    /\ LET e == TiledImageTooBigError(img)
       IN  ret' = IF e.num_tiles > MAX_DESIGN_TILES THEN Raise(e) ELSE Return(None)
    /\ op' = "validate"
    /\ UNCHANGED <<inputs, stream>>

\* frontend.image: required_design_count of a stored image
image ==
    /\ unit = "tiles" /\ op = "idle"
    /\ \E pro \in BOOLEAN :
          /\ ret' = Return(IF pro THEN 1 ELSE num_tiles(img[1], img[2]))
          /\ op' = IF pro THEN "image_pro" ELSE "image"
    /\ UNCHANGED <<inputs, stream>>

InitTiles ==
    /\ unit = "tiles" /\ op = "idle" /\ ret = NoRet
    /\ img \in (0..MaxWidth) \X (0..MaxHeight)
    /\ CodeIdle /\ RenderIdle /\ ErrorsIdle /\ ArchiveIdle /\ CreateIdle

NextTiles == validate \/ image

SpecTiles == InitTiles /\ [][NextTiles]_vars

\* The grid the specification describes: columns and rows floored separately.
cols == img[1] \div WIDTH
rows == img[2] \div HEIGHT

\* C1: for every raster size, the tile count is (width div WIDTH) * (height div
\* HEIGHT), columns and rows each floored before they are multiplied.
C1_TilesAreColsTimesRows ==
    op = "image" => ret = Return(cols * rows)

\* C2: validate raises the too-large error exactly when cols * rows exceeds
\* MAX_DESIGN_TILES, and the error carries cols * rows.
C2_ValidateRejectsIffOverBudget ==
    op = "validate" =>
        /\ (ret.kind = "raise") <=> (cols * rows > MAX_DESIGN_TILES)
        /\ ret.kind = "raise" =>
              ret.error = [cls |-> "TiledImageTooBigError", num_tiles |-> cols * rows]

-----------------------------------------------------------------------------
(* Design codes: designs.py design_id, the InvalidDesignCodeError regex.   *)

\* '0123456789BCDFGHJKLMNPQRSTVWXY', one character per element
Alphabet ==
    << "0", "1", "2", "3", "4", "5", "6", "7", "8", "9",
       "B", "C", "D", "F", "G", "H", "J", "K", "L", "M",
       "N", "P", "Q", "R", "S", "T", "V", "W", "X", "Y" >>

AlphabetChars == {Alphabet[i] : i \in 1..Len(Alphabet)}

\* {c: i for i, c in enumerate(...)}
DESIGN_CODE_ALPHABET == [c \in AlphabetChars |-> (CHOOSE i \in 1..Len(Alphabet) : Alphabet[i] = c) - 1]

\* Python's int is unbounded and an id reaches 30^12, past the integers of the
\* model checker.  An int is kept as its limbs in base 30^5, least significant
\* first, without leading zero limbs (zero is <<>>).
LimbBase == 30 * 30 * 30 * 30 * 30

RECURSIVE Canon(_)
Canon(n) == IF n # <<>> /\ n[Len(n)] = 0 THEN Canon(SubSeq(n, 1, Len(n) - 1)) ELSE n

\* n * 30 + carry, for 0 <= carry < 30
RECURSIVE MulAdd30(_, _)
MulAdd30(n, carry) ==
    IF n = <<>> THEN (IF carry = 0 THEN <<>> ELSE <<carry>>)
    ELSE LET t == Head(n) * 30 + carry
         IN  <<t % LimbBase>> \o MulAdd30(Tail(n), t \div LimbBase)

\* (no hyphen removed)
replace_nothing(s) == s

\* pattern_code.replace('-', '')
RECURSIVE replace_hyphens(_)
replace_hyphens(s) ==
    IF s = <<>> THEN <<>>
    ELSE IF Head(s) = "-" THEN replace_hyphens(Tail(s))
    ELSE <<Head(s)>> \o replace_hyphens(Tail(s))

\* (the digit added before the multiplication instead of after it)
design_id_step_add_first(n, c) ==
    MulAdd30(IF n = <<>> THEN MulAdd30(<<>>, DESIGN_CODE_ALPHABET[c])
             ELSE [n EXCEPT ![1] = n[1] + DESIGN_CODE_ALPHABET[c]], 0)

\* one turn of design_id's loop: n *= 30; n += DESIGN_CODE_ALPHABET[c]
design_id_step(n, c) == MulAdd30(n, DESIGN_CODE_ALPHABET[c])

\* the loop of design_id over the characters left, n the value so far
RECURSIVE design_id_loop(_, _)
design_id_loop(code, n) ==
    IF code = <<>> THEN Return(n)
    ELSE IF Head(code) \notin DOMAIN DESIGN_CODE_ALPHABET
         THEN Raise([cls |-> "InvalidDesignCodeError"])      \* except KeyError
    ELSE design_id_loop(Tail(code), design_id_step(n, Head(code)))

design_id(code) == design_id_loop(replace_hyphens(code), <<>>)

\* InvalidDesignCodeError.regex.fullmatch(s): [alphabet]{4}-[alphabet]{4}-[alphabet]{4}
regex_fullmatch(s) ==
    /\ Len(s) = 14
    /\ \A i \in 1..14 : IF i \in {5, 10} THEN s[i] = "-" ELSE s[i] \in AlphabetChars

\* InvalidFormatError.validate(s)
InvalidFormatError_validate(s) ==
    IF ~regex_fullmatch(s) THEN Raise([cls |-> "InvalidDesignCodeError"]) ELSE Return(s)

(* designs_api.design_code, the inverse the views call: the base-30        *)
(* expansion of the id to exactly 12 digits, grouped 4-4-4 with hyphens.   *)

\* n divided by 30 over limbs i..1: quotient limbs and remainder
RECURSIVE DivStep(_, _, _)
DivStep(n, i, r) ==
    IF i = 0 THEN [q |-> <<>>, r |-> r]
    ELSE LET cur == r * LimbBase + n[i]
             rest == DivStep(n, i - 1, cur % 30)
         IN  [q |-> Append(rest.q, cur \div 30), r |-> rest.r]

DivMod30(n) == LET d == DivStep(n, Len(n), 0) IN [q |-> Canon(d.q), r |-> d.r]

\* the k least significant base-30 digits of n, most significant first
RECURSIVE Digits(_, _)
Digits(n, k) ==
    IF k = 0 THEN <<>>
    ELSE LET dm == DivMod30(n) IN Append(Digits(dm.q, k - 1), dm.r)

design_code(n) ==
    LET d == Digits(n, 12)
        s == [i \in 1..12 |-> Alphabet[d[i] + 1]]
    IN  SubSeq(s, 1, 4) \o <<"-">> \o SubSeq(s, 5, 8) \o <<"-">> \o SubSeq(s, 9, 12)

\* n < 30^12
InRange12(n) == Len(n) <= 3 /\ (Len(n) = 3 => n[3] < 30 * 30)

(* The codes tried: three groups of four symbols each, hyphenated, and     *)
(* every string one edit away from such a code.                            *)

Groups ==
    { <<"0", "0", "0", "0">>, <<"Y", "Y", "Y", "Y">>, <<"1", "0", "0", "0">>,
      <<"B", "9", "X", "K">>, <<"0", "N", "0", "5">> }

EditChars == {"-", "0", "Y", "A", "Z", "b"}

WellFormed == {g1 \o <<"-">> \o g2 \o <<"-">> \o g3 : g1 \in Groups, g2 \in Groups, g3 \in Groups}

Deleted(s) == {SubSeq(s, 1, p - 1) \o SubSeq(s, p + 1, Len(s)) : p \in 1..Len(s)}
Inserted(s) == {SubSeq(s, 1, p - 1) \o <<c>> \o SubSeq(s, p, Len(s)) : p \in 1..(Len(s) + 1), c \in EditChars}
Replaced(s) == {[s EXCEPT ![p] = c] : p \in 1..Len(s), c \in EditChars}
\* a whole group cut off, and all hyphens dropped
Shapes(s) == {SubSeq(s, 1, 4), SubSeq(s, 1, 9), replace_hyphens(s), s \o <<"-">> \o SubSeq(s, 1, 4)}

CodeInputs == UNION {{s} \cup Deleted(s) \cup Inserted(s) \cup Replaced(s) \cup Shapes(s) : s \in WellFormed}

LimbSamples == {0, 1, 29, 30, 810000, 12345678, LimbBase - 1}
TopLimbSamples == {0, 1, 30, 457, 30 * 30 - 1}

IdInputs == {Canon(<<l0, l1, l2>>) : l0 \in LimbSamples, l1 \in LimbSamples, l2 \in TopLimbSamples}

\* designs.design_id(pattern_code): of the request's code, or of the code
\* design_code has just produced
design_id_call ==
    /\ \/ unit = "code" /\ op = "idle" /\ ret' = design_id(pattern_code)
       \/ unit = "ids" /\ op = "design_code" /\ ret' = design_id(ret.value)
    /\ op' = "design_id"
    /\ UNCHANGED <<inputs, stream>>

\* designs_api.design_code(id): of the given id, or of the id design_id has
\* just returned
design_code_call ==
    /\ \/ unit = "ids" /\ op = "idle" /\ ret' = Return(design_code(id))
       \/ /\ unit = "code" /\ op = "design_id" /\ ret.kind = "return"
          /\ InRange12(ret.value)
          /\ ret' = Return(design_code(ret.value))
    /\ op' = "design_code"
    /\ UNCHANGED <<inputs, stream>>

\* InvalidDesignCodeError.validate(design_code), as the api routes run it first
validate_code ==
    /\ unit = "code" /\ op = "idle"
    /\ ret' = InvalidFormatError_validate(pattern_code)
    /\ op' = "validate_code"
    /\ UNCHANGED <<inputs, stream>>

InitCode ==
    /\ op = "idle" /\ ret = NoRet
    /\ \/ unit = "code" /\ pattern_code \in CodeInputs /\ id = <<>>
       \/ unit = "ids" /\ pattern_code = <<>> /\ id \in IdInputs
    /\ TilesIdle /\ RenderIdle /\ ErrorsIdle /\ ArchiveIdle /\ CreateIdle

NextCode == design_id_call \/ design_code_call \/ validate_code

SpecCode == InitCode /\ [][NextCode]_vars


(* Claims about the design code transform. *)

\* the symbol's position in the alphabet
SymbolValue(c) == (CHOOSE i \in 1..Len(Alphabet) : Alphabet[i] = c) - 1

RECURSIVE Pow30(_)
Pow30(k) == IF k = 0 THEN 1 ELSE 30 * Pow30(k - 1)

\* the part of the sum over positions i..11 of value(c_i) * 30^(11-i) that
\* falls in limb j: the terms whose exponent is in 5j .. 5j+4
RECURSIVE LimbOfSum(_, _, _)
LimbOfSum(s, j, i) ==
    IF i > 11 THEN 0
    ELSE (IF (11 - i) \div 5 = j THEN SymbolValue(s[i + 1]) * Pow30((11 - i) % 5) ELSE 0)
         + LimbOfSum(s, j, i + 1)

PositionalSum(s) == Canon(<<LimbOfSum(s, 0, 0), LimbOfSum(s, 1, 0), LimbOfSum(s, 2, 0)>>)

TwelveSymbols(s) == Len(s) = 12 /\ \A i \in 1..12 : s[i] \in AlphabetChars

\* C3: for a code that is exactly 12 alphabet symbols once its hyphens are
\* removed, design_id returns the sum of value(c_i) * 30^(11-i), below 30^12.
C3_DesignIdIsPositionalSum ==
    (unit = "code" /\ op = "design_id" /\ TwelveSymbols(replace_hyphens(pattern_code))) =>
        /\ ret = Return(PositionalSum(replace_hyphens(pattern_code)))
        /\ InRange12(ret.value)

C3_Witness ==
    /\ unit = "code" /\ op = "design_id"
    /\ pattern_code = <<"B", "9", "X", "K", "-", "Y", "Y", "Y", "Y", "-", "0", "N", "0", "5">>
    /\ ret.kind = "return" /\ Len(ret.value) = 3

\* C4: design_id fails with the invalid-design-code error for every string
\* that is not three hyphen-separated groups of 4 alphabet symbols.
C4_MalformedCodeNeverDecodes ==
    (unit = "code" /\ op = "design_id" /\ ~regex_fullmatch(pattern_code)) =>
        ret = Raise([cls |-> "InvalidDesignCodeError"])

\* C5: decoding the 4-4-4 code of an id below 30^12 gives the id back; the
\* code of an id is a well-formed code, and encoding the id of a well-formed
\* code gives the code back, so the two are inverse bijections.
C5_DecodeInvertsEncode ==
    /\ (unit = "ids" /\ op = "design_id") => ret = Return(id)
    /\ (unit = "ids" /\ op = "design_code") => regex_fullmatch(ret.value)
    /\ (unit = "code" /\ op = "design_code" /\ regex_fullmatch(pattern_code)) =>
           ret = Return(pattern_code)

C5_Witness ==
    /\ unit = "ids" /\ op = "design_id"
    /\ id = <<12345678, LimbBase - 1, 457>> /\ ret = Return(id)

-----------------------------------------------------------------------------
(* Rendering: render.py gen_palette, _render_layer, render_layer.          *)
(* A fetched body is [mPalette |-> index key -> colour, mData |-> layer    *)
(* key -> bytes]; keys are decimal strings, one character per element, a   *)
(* colour is a 32-bit RGBA number, a layer a sequence of bytes.            *)

Digit == << "0", "1", "2", "3", "4", "5", "6", "7", "8", "9" >>

DigitValue(c) == (CHOOSE i \in 1..10 : Digit[i] = c) - 1

\* int(ind) of a decimal string
RECURSIVE int(_)
int(str) == IF str = <<>> THEN 0 ELSE 10 * int(SubSeq(str, 1, Len(str) - 1)) + DigitValue(str[Len(str)])

\* str(i) of a non-negative integer
RECURSIVE str(_)
str(i) == IF i < 10 THEN <<Digit[i + 1]>> ELSE Append(str(i \div 10), Digit[(i % 10) + 1])

\* (the palette as stored, index 15 not overridden)
gen_palette_as_stored(raw) ==
    LET P == raw.mPalette
    IN  [i \in {int(k) : k \in DOMAIN P} |-> P[CHOOSE k \in DOMAIN P : int(k) = i]]

\* gen_palette(raw_image): palette[int(ind)] = color for every item, then
\* palette[0xF] = 0
gen_palette(raw) ==
    LET P == raw.mPalette
    IN  [i \in {int(k) : k \in DOMAIN P} \cup {15} |->
            IF i = 15 THEN 0 ELSE P[CHOOSE k \in DOMAIN P : int(k) = i]]

\* color.to_bytes(4, byteorder='big')
to_bytes(color) ==
    << (color \div (256 * 256 * 256)) % 256, (color \div (256 * 256)) % 256,
       (color \div 256) % 256, color % 256 >>

\* (high nibble first)
nibbles_high_first(byte) == << (byte \div 16) % 16, byte % 16 >>

\* b1 = byte & 0xF; b2 = (byte >> 4) & 0xF; for nibble in b1, b2
nibbles(byte) == << byte % 16, (byte \div 16) % 16 >>

\* one turn of _render_layer's loop: the two pixels of a byte, or the KeyError
\* of the first nibble the palette does not hold
render_byte(palette, byte) ==
    LET nib == nibbles(byte)
    IN  IF nib[1] \notin DOMAIN palette THEN Raise([cls |-> "KeyError", key |-> nib[1]])
        ELSE IF nib[2] \notin DOMAIN palette THEN Raise([cls |-> "KeyError", key |-> nib[2]])
        ELSE Return(to_bytes(palette[nib[1]]) \o to_bytes(palette[nib[2]]))

\* the loop of _render_layer over bytes lo..hi, in order: what it writes, or
\* the first exception.  The range is halved rather than walked byte by byte
\* to keep the evaluation shallow; the bytes are still taken left to right.
RECURSIVE render_loop(_, _, _, _)
render_loop(palette, layer, lo, hi) ==
    IF lo > hi THEN Return(<<>>)
    ELSE IF lo = hi THEN render_byte(palette, layer[lo])
    ELSE LET mid == (lo + hi) \div 2
             left == render_loop(palette, layer, lo, mid)
         IN  IF left.kind = "raise" THEN left
             ELSE LET right == render_loop(palette, layer, mid + 1, hi)
                  IN  IF right.kind = "raise" THEN right
                      ELSE Return(left.value \o right.value)

\* im.import_pixels(channel_map='RGBA', data=...) on a WIDTH x HEIGHT image:
\* wand refuses data whose length is not width * height * 4
import_pixels(data) ==
    IF Len(data) # WIDTH * HEIGHT * 4 THEN Raise([cls |-> "ValueError"])
    ELSE Return([width |-> WIDTH, height |-> HEIGHT, data |-> data])

\* _render_layer(raw_image, palette, layer)
render_layer_(raw, layer) ==
    LET out == render_loop(gen_palette(raw), layer, 1, Len(layer))
    IN  IF out.kind = "raise" THEN out ELSE import_pixels(out.value)

\* render_layer(raw_image, layer_i)
render_layer(raw, i) ==
    IF str(i) \notin DOMAIN raw.mData
    THEN Raise([cls |-> "InvalidLayerIndexError", num_layers |-> Cardinality(DOMAIN raw.mData)])
    ELSE render_layer_(raw, raw.mData[str(i)])

(* The bodies tried. *)

LayerBytes == (WIDTH * HEIGHT) \div 2
MaxSlack == 1
MaxLayerIndex == 1

ByteSamples == {0, 15, 18, 240, 255, 227}
Patterns == {<<a, b>> : a \in ByteSamples, b \in ByteSamples}

MakeLayer(n, pat) == [k \in 1..n |-> pat[((k - 1) % Len(pat)) + 1]]

LayerInputs ==
    {MakeLayer(n, pat) : n \in (LayerBytes - MaxSlack)..(LayerBytes + MaxSlack), pat \in Patterns}

\* two ways of colouring the indices, every colour non-zero
Color(scheme, i) == IF scheme = 1 THEN (i + 1) * 16909060 + 255 ELSE 2130706687 - 65793 * i

IndexSets == {0..14, 0..15, 0..3, {}, {15}, {0, 1, 2, 14, 15}}

PaletteInputs ==
    {[k \in {str(i) : i \in S} |-> Color(scheme, int(k))] : S \in IndexSets, scheme \in 1..2}

\* render_layer(body, layer_i), as design_layer calls it
render_layer_call ==
    /\ unit = "render" /\ op = "idle"
    /\ ret' = render_layer(raw_image, layer_i)
    /\ op' = "render_layer"
    /\ UNCHANGED <<inputs, stream>>

InitRender ==
    /\ unit = "render" /\ op = "idle" /\ ret = NoRet
    /\ \E P \in PaletteInputs, L \in LayerInputs :
          raw_image = [mPalette |-> P, mData |-> (str(0) :> L)]
    /\ layer_i \in 0..MaxLayerIndex
    /\ TilesIdle /\ CodeIdle /\ ErrorsIdle /\ ArchiveIdle /\ CreateIdle

NextRender == render_layer_call

SpecRender == InitRender /\ [][NextRender]_vars


(* Claims about rendering. *)

Rendered == unit = "render" /\ op = "render_layer" /\ ret.kind = "return"

\* the layer the call is about, when the body holds it
TheLayer == raw_image.mData[str(layer_i)]

\* pixel p (0-based, row-major) of the returned raster, as its RGBA number
PixelColor(p) ==
    LET d == ret.value.data
    IN  ((d[4 * p + 1] * 256 + d[4 * p + 2]) * 256 + d[4 * p + 3]) * 256 + d[4 * p + 4]

LowNibble(byte) == byte % 16
HighNibble(byte) == byte \div 16

\* C6: byte k of the layer gives pixel 2k from its low nibble and pixel 2k+1
\* from its high nibble, so n bytes give exactly 2n pixels in order, each
\* the palette colour of its nibble.
C6_LowNibbleThenHighNibble ==
    Rendered =>
        LET palette == gen_palette(raw_image)
            n == Len(TheLayer)
        IN  /\ Len(ret.value.data) = 4 * (2 * n)
            /\ \A k \in 0..(n - 1) :
                  /\ PixelColor(2 * k) = palette[LowNibble(TheLayer[k + 1])]
                  /\ PixelColor(2 * k + 1) = palette[HighNibble(TheLayer[k + 1])]

C6_Witness ==
    /\ Rendered
    /\ TheLayer[1] = 18 /\ TheLayer[2] = 227
    /\ PixelColor(0) # PixelColor(1)

\* C7: whatever the fetched palette stores (or does not store) under index 15,
\* a pixel whose nibble is 15 is the transparent colour 0; a pixel with another
\* index has the colour the fetched palette stores for that index.
C7_Index15IsTransparent ==
    Rendered =>
        \A p \in 0..(2 * Len(TheLayer) - 1) :
            LET byte == TheLayer[(p \div 2) + 1]
                nibble == IF p % 2 = 0 THEN LowNibble(byte) ELSE HighNibble(byte)
            IN  IF nibble = 15 THEN PixelColor(p) = 0
                ELSE PixelColor(p) = raw_image.mPalette[str(nibble)]

C7_Witness ==
    /\ Rendered
    /\ str(15) \in DOMAIN raw_image.mPalette /\ raw_image.mPalette[str(15)] # 0
    /\ TheLayer[1] = 240
    /\ PixelColor(0) # 0 /\ PixelColor(1) = 0

\* C8: rendering a layer whose length is not WIDTH * HEIGHT / 2 fails with the
\* size-mismatch error (InvalidLayerSizeError); stated for a palette that holds
\* every index, so that nothing but the length is wrong.
C8_WrongLengthIsSizeMismatch ==
    (unit = "render" /\ op = "render_layer" /\ str(layer_i) \in DOMAIN raw_image.mData
        /\ (\A i \in 0..14 : str(i) \in DOMAIN raw_image.mPalette)
        /\ Len(TheLayer) # (WIDTH * HEIGHT) \div 2) =>
        (ret.kind = "raise" /\ ret.error.cls = "InvalidLayerSizeError")

-----------------------------------------------------------------------------
(* Error kinds: the classes of errors.py, ACNHError.to_dict and its        *)
(* overrides, api.handle_acnh_exception.                                   *)
(* An exception is a record: cls, and the attributes its __init__ sets.    *)

BYTES_PER_PIXEL == 4

\* a message is a sequence of parts: literal text, or a replacement field
\* naming an attribute path of the exception ('{0.layer.name}')
T(text) == [kind |-> "text", text |-> text]
F(path) == [kind |-> "field", path |-> path]

ClassDef(bases, attrs, to_dict) == [bases |-> bases, attrs |-> attrs, to_dict |-> to_dict]

\* class -> its bases, the class attributes its body sets, whether its body
\* defines to_dict
Classes ==
    [ ACNHError |-> ClassDef(<<>>, <<>>, TRUE),
      InvalidFormatError |-> ClassDef(<<"ACNHError">>, [http_status |-> 400], TRUE),
      DodoCodeError |-> ClassDef(<<"ACNHError">>, <<>>, FALSE),
      UnknownDodoCodeError |-> ClassDef(<<"DodoCodeError">>,
          [code |-> 101, http_status |-> 404, message |-> <<T("unknown dodo code")>>], FALSE),
      InvalidDodoCodeError |-> ClassDef(<<"DodoCodeError", "InvalidFormatError">>,
          [code |-> 102, message |-> <<T("invalid dodo code")>>, regex |-> "[A-HJ-NP-Y0-9]{5}"], FALSE),
      ImageError |-> ClassDef(<<"ACNHError">>, <<>>, FALSE),
      DesignError |-> ClassDef(<<"ACNHError">>, <<>>, FALSE),
      UnknownDesignCodeError |-> ClassDef(<<"DesignError">>,
          [code |-> 201, message |-> <<T("unknown design code")>>, http_status |-> 404], FALSE),
      InvalidDesignCodeError |-> ClassDef(<<"DesignError", "InvalidFormatError">>,
          [code |-> 202, message |-> <<T("invalid design code")>>,
           regex |-> "[0123456789BCDFGHJKLMNPQRSTVWXY]{4}-[0123456789BCDFGHJKLMNPQRSTVWXY]{4}-[0123456789BCDFGHJKLMNPQRSTVWXY]{4}"],
          FALSE),
      UnknownAuthorIdError |-> ClassDef(<<"DesignError">>,
          [code |-> 203, message |-> <<T("unknown author ID")>>, http_status |-> 404], FALSE),
      InvalidAuthorIdError |-> ClassDef(<<"DesignError", "InvalidFormatError">>,
          [code |-> 204, message |-> <<T("invalid author ID")>>, regex |-> "\\d{4}-?\\d{4}-?\\d{4}"], FALSE),
      InvalidScaleFactorError |-> ClassDef(<<"InvalidFormatError">>,
          [message |-> <<T("invalid scale factor")>>, code |-> 205, regex |-> "[123456]"], FALSE),
      InvalidLayerIndexError |-> ClassDef(<<"DesignError">>,
          [code |-> 206, message |-> <<T("Invalid layer index")>>], TRUE),
      InvalidLayerNameError |-> ClassDef(<<"DesignError">>,
          [code |-> 207, message |-> <<T("Invalid layer name")>>, http_status |-> 400], TRUE),
      InvalidProArgument |-> ClassDef(<<"DesignError", "InvalidFormatError">>,
          [message |-> <<T("invalid value for pro argument")>>, code |-> 208,
           regex |-> "[01]|(?:false|true)|[ft]"], FALSE),
      CannotScaleThumbnailError |-> ClassDef(<<"DesignError">>,
          [message |-> <<T("cannot scale thumbnails")>>, code |-> 209, http_status |-> 400], FALSE),
      InvalidDesignError |-> ClassDef(<<"DesignError">>,
          [code |-> 210,
           message |-> <<T("Nintendo did not like your design for some reason. (Invalid name, perhaps?)")>>,
           http_status |-> 400], FALSE),
      InvalidPaletteError |-> ClassDef(<<"DesignError">>,
          [code |-> 211, message |-> <<T("the combined palette of all layers exceeds PALETTE_SIZE colors")>>,
           http_status |-> 400], FALSE),
      DesignLitTheServerOnFireError |-> ClassDef(<<"InvalidDesignError", "DesignError">>,
          [code |-> 212], FALSE),
      UnknownImageIdError |-> ClassDef(<<"ImageError">>,
          [code |-> 301, message |-> <<T("unknown image ID")>>, http_status |-> 404], FALSE),
      InvalidImageIdError |-> ClassDef(<<"ImageError", "InvalidFormatError">>,
          [code |-> 302, message |-> <<T("Invalid image ID.")>>, regex |-> "[0-9]+"], FALSE),
      DeletionDeniedError |-> ClassDef(<<"ImageError">>,
          [code |-> 303, message |-> <<T("you do not own this image")>>, http_status |-> 401], FALSE),
      InvalidLayerSizeError |-> ClassDef(<<"ImageError">>,
          [code |-> 305,
           message |-> <<T("layer "), F(<<"name">>), T(" was not "), F(<<"width">>), T("x"),
                         F(<<"height">>), T(".")>>,
           http_status |-> 400], TRUE),
      TiledImageTooBigError |-> ClassDef(<<"ImageError">>,
          [code |-> 306,
           message |-> <<T("The uploaded image would create "), F(<<"num_tiles">>),
                         T(" tiles, which is greater than the limit, MAX_DESIGN_TILES.")>>,
           http_status |-> 413], FALSE),
      InvalidImageArgument |-> ClassDef(<<"ImageError">>,
          [code |-> 307,
           message |-> <<T("missing or invalid required image argument "), F(<<"argument_name">>)>>,
           http_status |-> 400], TRUE),
      InvalidLayerError |-> ClassDef(<<"DesignError">>, [http_status |-> 400], TRUE),
      MissingLayerError |-> ClassDef(<<"InvalidLayerError">>,
          [code |-> 309,
           message |-> <<T("Payload was missing one or more layers. First missing layer: "),
                         F(<<"layer", "name">>)>>,
           http_status |-> 400], FALSE),
      InvalidImageError |-> ClassDef(<<"ImageError">>,
          [code |-> 310, message |-> <<T("One or more layers submitted represented an invalid image.")>>,
           http_status |-> 400], FALSE),
      ImageNameTooLongError |-> ClassDef(<<"ImageError">>,
          [code |-> 312,
           message |-> <<T("The name provided was too long. Maximum in this case is "),
                         F(<<"max_len">>), T(" characters.")>>,
           http_status |-> 400], TRUE),
      InvalidPaginationError |-> ClassDef(<<"ACNHError">>, [http_status |-> 400], FALSE),
      TwoPaginationReferencesPassedError |-> ClassDef(<<"ACNHError">>,
          [code |-> 401, message |-> <<T("Only one of before or after may be specified.")>>], FALSE),
      InvalidPaginationLimitError |-> ClassDef(<<"InvalidFormatError", "InvalidPaginationError">>,
          [code |-> 402, message |-> <<T("Invalid limit passed")>>, regex |-> "[0-9]+"], FALSE),
      AuthorizationError |-> ClassDef(<<"ACNHError">>, <<>>, FALSE),
      MissingUserAgentStringError |-> ClassDef(<<"AuthorizationError">>,
          [code |-> 901, message |-> <<T("User-Agent header required")>>, http_status |-> 400], FALSE),
      IncorrectAuthorizationError |-> ClassDef(<<"AuthorizationError">>,
          [code |-> 902, message |-> <<T("invalid or incorrect Authorization header")>>,
           http_status |-> 401], FALSE) ]

\* the method resolution order: the class, then its bases' orders left to
\* right, a class shared by several bases taken at its last place
RECURSIVE LinearizeAll(_)
LinearizeAll(todo) ==
    IF todo = <<>> THEN <<>>
    ELSE <<Head(todo)>> \o LinearizeAll(Classes[Head(todo)].bases \o Tail(todo))

Linearize(c) == LinearizeAll(<<c>>)

RECURSIVE KeepLastFrom(_, _)
KeepLastFrom(q, i) ==
    IF i > Len(q) THEN <<>>
    ELSE IF \A j \in (i + 1)..Len(q) : q[j] # q[i] THEN <<q[i]>> \o KeepLastFrom(q, i + 1)
    ELSE KeepLastFrom(q, i + 1)

KeepLast(q) == KeepLastFrom(q, 1)

\* the order of every class, worked out once as the interpreter does at class
\* creation (cls.__mro__)
ResolutionOrders == [c \in DOMAIN Classes |-> KeepLast(Linearize(c))]

mro(c) == ResolutionOrders[c]

AttributeError(name) == [cls |-> "AttributeError", name |-> name]

\* self.<name>: the instance's attribute, else the first class of the
\* resolution order whose body sets it, else AttributeError
getattr(e, name) ==
    IF name \in DOMAIN e THEN Return(e[name])
    ELSE LET m == mro(e.cls)
             has == {i \in 1..Len(m) : name \in DOMAIN Classes[m[i]].attrs}
         IN  IF has = {} THEN Raise(AttributeError(name))
             ELSE Return(Classes[m[CHOOSE i \in has : \A j \in has : i <= j]].attrs[name])

\* the value of a replacement field: attribute after attribute from self
RECURSIVE resolve(_, _)
resolve(obj, path) ==
    IF path = <<>> THEN Return(obj)
    ELSE IF Head(path) \notin DOMAIN obj THEN Raise(AttributeError(Head(path)))
    ELSE resolve(obj[Head(path)], Tail(path))

\* message.format(self)
RECURSIVE format(_, _)
format(message, self) ==
    IF message = <<>> THEN Return(<<>>)
    ELSE LET part == Head(message)
             first == IF part.kind = "text" THEN Return(part)
                      ELSE LET v == resolve(self, part.path)
                           IN  IF v.kind = "raise" THEN v
                               ELSE Return([kind |-> "value", value |-> v.value])
         IN  IF first.kind = "raise" THEN first
             ELSE LET rest == format(Tail(message), self)
                  IN  IF rest.kind = "raise" THEN rest ELSE Return(<<first.value>> \o rest.value)

\* ACNHError.to_dict: {'error': self.message.format(self), 'error_code':
\* self.code, 'http_status': self.http_status}, evaluated left to right
ACNHError_to_dict(self) ==
    LET message == getattr(self, "message")
        code == getattr(self, "code")
        http_status == getattr(self, "http_status")
    IN  IF message.kind = "raise" THEN message
        ELSE LET error == format(message.value, self)
             IN  IF error.kind = "raise" THEN error
                 ELSE IF code.kind = "raise" THEN code
                 ELSE IF http_status.kind = "raise" THEN http_status
                 ELSE Return([error |-> error.value, error_code |-> code.value,
                              http_status |-> http_status.value])

\* d[key] = value
SetItem(d, key, value) == (key :> value) @@ d

\* InvalidLayerIndexError.to_dict after super().to_dict(): it sets
\* d['num_layers'] and ends without a return statement
InvalidLayerIndexError_to_dict(self, d) == Return(None)

\* the body of a class's own to_dict, after d = super().to_dict() has returned d
to_dict_body(c, self, d) ==
    CASE c = "InvalidFormatError" ->
            LET regex == getattr(self, "regex")
            IN  IF regex.kind = "raise" THEN regex
                ELSE Return(SetItem(d, "validation_regex", regex.value))
      [] c = "InvalidLayerIndexError" -> InvalidLayerIndexError_to_dict(self, d)
      [] c = "InvalidLayerNameError" ->
            Return(SetItem(d, "valid_layer_names", self.valid_layer_names))
      [] c = "InvalidLayerSizeError" ->
            Return(SetItem(SetItem(SetItem(d, "expected_width", self.width),
                                   "expected_height", self.height),
                           "expected_byte_length", self.width * self.height * BYTES_PER_PIXEL))
      [] c = "InvalidImageArgument" -> Return(SetItem(d, "argument_name", self.argument_name))
      [] c = "InvalidLayerError" ->
            Return(SetItem(SetItem(d, "layer_name", self.layer.name), "layer_size", self.layer.size))
      [] c = "ImageNameTooLongError" -> Return(SetItem(d, "max_length", self.max_len))

\* to_dict as found from the classes m of the resolution order on; super()
\* goes on from the class after the one whose body is running
RECURSIVE to_dict_from(_, _)
to_dict_from(self, m) ==
    IF m = <<>> THEN Raise(AttributeError("to_dict"))
    ELSE IF ~Classes[Head(m)].to_dict THEN to_dict_from(self, Tail(m))
    ELSE IF Head(m) = "ACNHError" THEN ACNHError_to_dict(self)
    ELSE LET d == to_dict_from(self, Tail(m))
         IN  IF d.kind = "raise" THEN d ELSE to_dict_body(Head(m), self, d.value)

\* ex.to_dict()
to_dict(self) == to_dict_from(self, mro(self.cls))

\* api.handle_acnh_exception(ex): the JSON response of an ACNH error
handle_acnh_exception(e) ==
    LET d == to_dict(e)
    IN  IF d.kind = "raise" THEN d
        ELSE IF d.value = None THEN Raise([cls |-> "TypeError"])     \* None['http_status']
        ELSE Return([status_code |-> d.value.http_status, data |-> d.value,
                     content_type |-> "application/json"])

(* The exceptions tried: every class that sets a code, over the arguments  *)
(* its __init__ takes.                                                     *)

MaxLayers == 3

PlainKinds ==
    { "UnknownDodoCodeError", "InvalidDodoCodeError", "UnknownDesignCodeError",
      "InvalidDesignCodeError", "UnknownAuthorIdError", "InvalidAuthorIdError",
      "InvalidScaleFactorError", "InvalidProArgument", "CannotScaleThumbnailError",
      "InvalidDesignError", "InvalidPaletteError", "DesignLitTheServerOnFireError",
      "UnknownImageIdError", "InvalidImageIdError", "DeletionDeniedError", "InvalidImageError",
      "TwoPaginationReferencesPassedError", "InvalidPaginationLimitError",
      "MissingUserAgentStringError" }

LayerNames == {"0", "front", "back", "brim"}
LayerDefs == {[name |-> n, size |-> <<w, h>>] : n \in LayerNames, w \in {WIDTH, 2 * WIDTH}, h \in {HEIGHT, 2 * HEIGHT}}

ErrorInputs ==
    {[cls |-> c] : c \in PlainKinds}
    \cup {[cls |-> "InvalidLayerIndexError", num_layers |-> n] : n \in 0..MaxLayers}
    \cup {[cls |-> "InvalidLayerNameError", valid_layer_names |-> l] :
             l \in {<<"0">>, <<"front", "back">>, <<"top", "brim">>}}
    \cup {[cls |-> "InvalidLayerSizeError", name |-> d.name, width |-> d.size[1], height |-> d.size[2]] :
             d \in LayerDefs}
    \cup {TiledImageTooBigError(<<w * WIDTH, h * HEIGHT>>) : w \in 3..6, h \in 3..6}
    \cup {[cls |-> "InvalidImageArgument", argument_name |-> a] : a \in {"image_name", "resize"}}
    \cup {[cls |-> "MissingLayerError", layer |-> d] : d \in LayerDefs}
    \cup {[cls |-> "ImageNameTooLongError", max_len |-> n] : n \in 16..18}
    \cup {[cls |-> "IncorrectAuthorizationError", path |-> q] : q \in {"None", "/api/v0/images"}}

\* ex.to_dict()
to_dict_call ==
    /\ unit = "errors" /\ op = "idle"
    /\ ret' = to_dict(ex)
    /\ op' = "to_dict"
    /\ UNCHANGED <<inputs, stream>>

\* the error handler of the api blueprint, run on an ACNH error a view raised
handle_acnh_exception_call ==
    /\ unit = "errors" /\ op = "idle"
    /\ ret' = handle_acnh_exception(ex)
    /\ op' = "handle_acnh_exception"
    /\ UNCHANGED <<inputs, stream>>

InitErrors ==
    /\ unit = "errors" /\ op = "idle" /\ ret = NoRet
    /\ ex \in ErrorInputs
    /\ TilesIdle /\ CodeIdle /\ RenderIdle /\ ArchiveIdle /\ CreateIdle

NextErrors == to_dict_call \/ handle_acnh_exception_call

SpecErrors == InitErrors /\ [][NextErrors]_vars

(* Claims about the error kinds. *)

\* the payload entries a kind's own to_dict adds
PayloadKeys(c) ==
    CASE c = "InvalidLayerIndexError" -> {"num_layers"}
      [] c = "InvalidLayerNameError" -> {"valid_layer_names"}
      [] c = "InvalidLayerSizeError" -> {"expected_width", "expected_height", "expected_byte_length"}
      [] c = "InvalidImageArgument" -> {"argument_name"}
      [] c = "MissingLayerError" -> {"layer_name", "layer_size"}
      [] c = "ImageNameTooLongError" -> {"max_length"}
      [] OTHER -> {}

\* C10: for every error kind, to_dict returns a record with the formatted
\* message, the error code and the http status, and the kind's own payload;
\* handle_acnh_exception answers with that http status.
C10_ToDictAlwaysReturnsRecord ==
    /\ (unit = "errors" /\ op = "to_dict") =>
          /\ ret.kind = "return"
          /\ ret.value # None
          /\ {"error", "error_code", "http_status"} \cup PayloadKeys(ex.cls) \subseteq DOMAIN ret.value
          /\ \A i \in 1..Len(ret.value.error) : ret.value.error[i].kind # "field"
          /\ ret.value.error_code = Classes[ex.cls].attrs.code
    /\ (unit = "errors" /\ op = "handle_acnh_exception") =>
          /\ ret.kind = "return"
          /\ ret.value.status_code = ret.value.data.http_status

-----------------------------------------------------------------------------
(* Fetching a design: designs.py _download_design.  The remote service     *)
(* answers the listing request with the number of designs it found; each   *)
(* request sent is logged in `requests`, the listing with its answer.      *)

MaxTotal == 2

Listing(n, total) == [request |-> "listing", design_id |-> n, total |-> total]
BodyRequest == [request |-> "body"]

\* (only an empty listing refused)
check_total_nonzero(total) ==
    IF total = 0 THEN Raise([cls |-> "UnknownDesignCodeError"])
    ELSE Return(None)

\* if not resp['total']: raise UnknownDesignCodeError
\* if resp['total'] > 1: raise RuntimeError(...)
check_total(total) ==
    IF total = 0 THEN Raise([cls |-> "UnknownDesignCodeError"])
    ELSE IF total > 1 THEN Raise([cls |-> "RuntimeError"])
    ELSE Return(None)

\* _download_design once the id n is known: the listing request, the check
\* of its total, the body request; what was sent and how the call ended
fetch(n, total, data) ==
    LET checked == check_total(total)
    IN  IF checked.kind = "raise" THEN [sent |-> <<Listing(n, total)>>, result |-> checked]
        ELSE [sent |-> <<Listing(n, total), BodyRequest>>, result |-> Return(data)]

\* _download_design(token, design_code): design_id(design_code) is worked
\* out for the parameters of the listing request, before anything is sent.
\* The api views apply design_id themselves and hand the id on, which sends
\* the same requests.
download_design_(code, total, data) ==
    LET n == design_id(code)
    IN  IF n.kind = "raise" THEN [sent |-> <<>>, result |-> n]
        ELSE fetch(n.value, total, data)

\* the document the remote service holds for the design
Document == [mMeta |-> [mMtUse |-> type_code], mData |-> raw_image]

-----------------------------------------------------------------------------
(* The design archive: api.design_archive and the generator it streams,    *)
(* render.render_layers.  pc is "start" when the request arrives,          *)
(* "streaming" once the view has returned the response around gen(), then  *)
(* the place gen() is suspended at; each generator action runs gen() from  *)
(* one yield to the next.                                                  *)

\* get_scale_factor(): request.args.get('scale', '1'), checked against
\* InvalidScaleFactorError.regex ([123456]), then int()
get_scale_factor(a) ==
    LET scale_factor == IF "scale" \in DOMAIN a THEN a.scale ELSE <<"1">>
    IN  IF ~(Len(scale_factor) = 1 /\ scale_factor[1] \in {"1", "2", "3", "4", "5", "6"})
        THEN Raise([cls |-> "InvalidScaleFactorError"])
        ELSE Return(int(scale_factor))

\* maybe_scale(image): the image itself at scale 1, else the image scaled
maybe_scale(a, im) ==
    LET scale_factor == get_scale_factor(a)
    IN  IF scale_factor.kind = "raise" THEN scale_factor
        ELSE IF scale_factor.value = 1 THEN Return(im)
        ELSE Return([width |-> im.width * scale_factor.value,
                     height |-> im.height * scale_factor.value, scaled |-> im.data])

\* raw_image['mData'].items(): the layers in the order of the document
items(mData) == [i \in 1..Cardinality(DOMAIN mData) |-> str(i - 1)]

\* render_external_layers(body, type_code): every layer rendered before the
\* mapping is returned, so the first layer that cannot be rendered raises
RECURSIVE render_external_layers(_, _)
render_external_layers(raw, keys) ==
    IF keys = <<>> THEN Return(<<>>)
    ELSE LET im == render_layer_(raw, raw.mData[Head(keys)])
         IN  IF im.kind = "raise" THEN im
             ELSE LET rest == render_external_layers(raw, Tail(keys))
                  IN  IF rest.kind = "raise" THEN rest ELSE Return(<<Head(keys)>> \o rest.value)

Part(p) == [part |-> p]
Entry(name) == [part |-> "entry", name |-> name]

\* type_code == BasicDesign.type_code or render_internal
RenderInternal == type_code = "BasicDesign.type_code" \/ "internal_layers" \in DOMAIN args

\* the body of design_archive, up to returning the streamed response
design_archive ==
    /\ unit = "archive" /\ pc = "start"
    /\ op' = "design_archive"
    /\ LET valid == InvalidFormatError_validate(pattern_code)
           scale_factor == get_scale_factor(args)
       IN  IF valid.kind = "raise" THEN pc' = "failed" /\ ret' = valid /\ UNCHANGED requests
           ELSE IF scale_factor.kind = "raise"
           THEN pc' = "failed" /\ ret' = scale_factor /\ UNCHANGED requests
           ELSE \E total \in 0..MaxTotal :     \* download_design: what the listing reports
                   LET data == download_design_(pattern_code, total, Document)
                   IN  /\ requests' = data.sent
                       /\ IF data.result.kind = "raise" THEN pc' = "failed" /\ ret' = data.result
                          ELSE pc' = "streaming" /\ ret' = NoRet
    /\ UNCHANGED <<inputs, emitted, pending, design>>

\* gen() up to its first yield: yield from tar.header()
gen_header ==
    /\ unit = "archive" /\ pc = "streaming"
    /\ emitted' = Append(emitted, Part("header"))
    /\ pc' = "header"
    /\ UNCHANGED <<inputs, op, ret, pending, design, requests>>

\* gen() from one yield to the next: after the header it picks the layers
\* (render_layers renders each layer only when the loop asks for it), then
\* the loop renders, scales and adds the next layer, or the footer follows
gen_next ==
    /\ unit = "archive" /\ pc \in {"header", "layers"}
    /\ LET layers == IF pc = "layers" THEN Return(pending)
                     ELSE IF RenderInternal THEN Return(items(raw_image.mData))
                     ELSE render_external_layers(raw_image, items(raw_image.mData))
       IN  IF layers.kind = "raise"
           THEN pc' = "failed" /\ ret' = layers /\ UNCHANGED <<emitted, pending>>
           ELSE IF layers.value = <<>>
           THEN /\ emitted' = Append(emitted, Part("footer"))       \* yield from tar.footer()
                /\ pc' = "done" /\ ret' = Return(None) /\ UNCHANGED pending
           ELSE LET name == Head(layers.value)
                    im == render_layer_(raw_image, raw_image.mData[name])
                    scaled == IF im.kind = "raise" THEN im ELSE maybe_scale(args, im.value)
                IN  IF scaled.kind = "raise"
                    THEN pc' = "failed" /\ ret' = scaled /\ UNCHANGED <<emitted, pending>>
                    ELSE /\ emitted' = Append(emitted, Entry(int(name)))   \* tar.addfile
                         /\ pending' = Tail(layers.value)
                         /\ pc' = "layers" /\ UNCHANGED ret
    /\ UNCHANGED <<inputs, op, design, requests>>

(* The requests tried. *)

MaxArchiveLayers == 2

ArchivePalette == [k \in {str(i) : i \in 0..3} |-> Color(1, int(k))]

\* a layer of the right length within the palette, one a byte short, one
\* of the right length with indices the palette does not hold
ArchiveLayerInputs ==
    { MakeLayer(LayerBytes, <<18, 48>>), MakeLayer(LayerBytes - 1, <<18, 48>>),
      MakeLayer(LayerBytes, <<18, 227>>) }

ArchiveBodies ==
    UNION {{[mPalette |-> ArchivePalette, mData |-> [k \in {str(i) : i \in 0..(n - 1)} |-> L[int(k) + 1]]] :
                L \in [1..n -> ArchiveLayerInputs]} : n \in 1..MaxArchiveLayers}

ArchiveArgs ==
    {a @@ b : a \in {<<>>, [scale |-> <<"1">>], [scale |-> <<"3">>], [scale |-> <<"7">>]},
              b \in {<<>>, [internal_layers |-> <<>>]}}

InitArchive ==
    /\ unit = "archive" /\ op = "idle" /\ ret = NoRet
    /\ pattern_code \in {<<"B", "9", "X", "K", "-", "Y", "Y", "Y", "Y", "-", "0", "N", "0", "5">>,
                         <<"B", "9", "X", "K", "-", "Y", "Y", "Y", "Y", "-", "0", "N", "0", "Z">>}
    /\ args \in ArchiveArgs
    /\ type_code \in {"BasicDesign.type_code", "other"}
    /\ raw_image \in ArchiveBodies
    /\ pc = "start" /\ emitted = <<>> /\ pending = <<>> /\ requests = <<>>
    /\ img = NoImg /\ id = <<>> /\ layer_i = 0 /\ ex = None /\ CreateIdle

NextArchive == design_archive \/ gen_header \/ gen_next

SpecArchive == InitArchive /\ [][NextArchive]_vars

(* Claims about the archive. *)

\* the whole stream: the header, one entry per layer in order, the footer
WholeArchive ==
    <<Part("header")>>
    \o [i \in 1..Cardinality(DOMAIN raw_image.mData) |-> Entry(i - 1)]
    \o <<Part("footer")>>

\* C9: design_archive is atomic for its caller: it either emits the whole
\* archive and completes, or fails before any part of it has been emitted.
C9_ArchiveIsAtomic ==
    unit = "archive" =>
        /\ pc = "failed" => emitted = <<>>
        /\ pc = "done" => emitted = WholeArchive

-----------------------------------------------------------------------------
(* Design names: errors.py ImageNameTooLongError.validate.  A name is None *)
(* or a str, kept as Str(its characters).                                  *)

MAX_NAME_LEN == 20

Str(chars) == [str |-> chars]

\* len(s) of a str
len(s) == Len(s.str)

\* BasicDesign(..., design_name=image_name, layers={'0': img}), as
\* create_basic_image builds it: what validate reads of it
BasicDesign(name, im) == [design_name |-> name, layer_images |-> ("0" :> im)]

\* len(f' {num_tiles(*img.size)}')
overhead(im) == Len(<<" ">> \o str(num_tiles(im[1], im[2])))

\* ImageNameTooLongError.validate(design)
ImageNameTooLongError_validate(d) ==
    LET im == d.layer_images["0"]
        o == overhead(im)
    IN  IF d.design_name # None /\ len(d.design_name) + o > MAX_NAME_LEN
        THEN Raise([cls |-> "ImageNameTooLongError", max_len |-> MAX_NAME_LEN - o])
        ELSE Return(d)

\* ImageNameTooLongError.validate(design) of the design of an upload
validate_name ==
    /\ unit = "name" /\ op = "idle"
    /\ ret' = ImageNameTooLongError_validate(BasicDesign(image_name, img))
    /\ op' = "validate_name"
    /\ UNCHANGED <<inputs, stream>>

(* The designs tried: no name and names up to a little over the limit, on  *)
(* images whose sides are multiples of half a tile.                        *)

MaxNameExcess == 1

NameOfLength(n) == Str([i \in 1..n |-> "a"])

NameInputs == {None} \cup {NameOfLength(n) : n \in 0..(MAX_NAME_LEN + MaxNameExcess)}

NameImageSizes ==
    {<<w, h>> : w \in {x \in 0..MaxWidth : x % (WIDTH \div 2) = 0},
                h \in {y \in 0..MaxHeight : y % (HEIGHT \div 2) = 0}}

InitName ==
    /\ unit = "name" /\ op = "idle" /\ ret = NoRet
    /\ img \in NameImageSizes
    /\ image_name \in NameInputs
    /\ files = <<>> /\ results = <<>> /\ design = None
    /\ CodeIdle /\ RenderIdle /\ ErrorsIdle /\ ArchiveIdle

NextName == validate_name

SpecName == InitName /\ [][NextName]_vars

(* Claims about design names. *)

\* the length of ' N' for the tile count N of the image: its columns times
\* its rows
SuffixLength == Len(<<" ">> \o str(cols * rows))

\* C13: validate raises exactly when the name is present and its length plus
\* the length of ' N', N the tile count of layer '0', exceeds MAX_NAME_LEN;
\* the max_len reported is MAX_NAME_LEN minus that suffix length; otherwise
\* the design is returned unchanged.
C13_NameTooLongIffOverLimit ==
    (unit = "name" /\ op = "validate_name") =>
        LET tooLong == image_name # None /\ len(image_name) + SuffixLength > MAX_NAME_LEN
        IN  /\ (ret.kind = "raise") <=> tooLong
            /\ ret.kind = "raise" =>
                  ret.error = [cls |-> "ImageNameTooLongError", max_len |-> MAX_NAME_LEN - SuffixLength]
            /\ ret.kind = "return" => ret.value = BasicDesign(image_name, img)

-----------------------------------------------------------------------------
(* Uploads: api.create_basic_image and the generator it streams,           *)
(* format_created_design_results over designs_db.create_image.  pc is      *)
(* "start" when the request arrives, "streaming" once the view has         *)
(* returned the response around gen(), then the place the generator is     *)
(* suspended at.  request.args maps a name to its characters, request.files *)
(* a slot name to the file sent: whether it reads as an image, and of what *)
(* size.                                                                   *)

DigitChars == {Digit[i] : i \in 1..10}

\* s.split(sep)
RECURSIVE split(_, _)
split(s, sep) ==
    IF \A i \in 1..Len(s) : s[i] # sep THEN <<s>>
    ELSE LET p == CHOOSE i \in 1..Len(s) : s[i] = sep /\ \A j \in 1..(i - 1) : s[j] # sep
         IN  <<SubSeq(s, 1, p - 1)>> \o split(SubSeq(s, p + 1, Len(s)), sep)

\* int(s) of any str: a ValueError unless s is decimal digits
int_checked(s) ==
    IF s = <<>> \/ \E i \in 1..Len(s) : s[i] \notin DigitChars
    THEN Raise([cls |-> "ValueError"])
    ELSE Return(int(s))

\* tuple(map(int, parts))
tuple_map_int(parts) ==
    IF \E i \in 1..Len(parts) : int_checked(parts[i]).kind = "raise"
    THEN Raise([cls |-> "ValueError"])
    ELSE Return([i \in 1..Len(parts) |-> int(parts[i])])

\* a local variable no statement has assigned
Unbound == [kind |-> "unbound"]

InvalidImageArgument(argument_name) == [cls |-> "InvalidImageArgument", argument_name |-> argument_name]

\* (a request without resize refused like one whose resize does not parse)
parse_resize_required(a) ==
    IF "resize" \notin DOMAIN a THEN Raise(InvalidImageArgument("resize"))
    ELSE LET resize == tuple_map_int(split(a.resize, "x"))
         IN  IF resize.kind = "raise" THEN Raise(InvalidImageArgument("resize"))
             ELSE IF Len(resize.value) # 2 THEN Raise(InvalidImageArgument("resize"))
             ELSE resize

\* the first try statement of create_basic_image: resize is assigned when
\* the argument is there and parses; except KeyError: pass leaves it
\* unassigned
parse_resize(a) ==
    IF "resize" \notin DOMAIN a THEN Unbound
    ELSE LET resize == tuple_map_int(split(a.resize, "x"))
         IN  IF resize.kind = "raise" THEN Raise(InvalidImageArgument("resize"))
             ELSE IF Len(resize.value) # 2 THEN Raise(InvalidImageArgument("resize"))
             ELSE resize

\* wand.image.Image(file=request.files[key]): the size of the image read
open_image(f, key) ==
    IF key \notin DOMAIN f THEN Raise([cls |-> "KeyError", key |-> key])
    ELSE IF ~f[key].readable THEN Raise([cls |-> "WandException"])
    ELSE Return(f[key].size)

\* BasicDesign.external_layers: the one slot of a basic design
BasicDesign_external_layers == <<[name |-> "0", size |-> <<WIDTH, HEIGHT>>]>>

\* img.transform(resize='WxH'): the image made to fit W x H, its aspect
\* ratio kept, each side rounded to the nearest pixel and at least 1
transform(size, resize) ==
    LET w == size[1]
        h == size[2]
        W == resize[1]
        H == resize[2]
        AtLeast1(n) == IF n < 1 THEN 1 ELSE n
    IN  IF w * H <= h * W
        THEN <<AtLeast1((2 * w * H + h) \div (2 * h)), H>>
        ELSE <<W, AtLeast1((2 * h * W + w) \div (2 * w))>>

\* the body of create_basic_image, up to returning the streamed response
create_basic_image ==
    /\ unit = "create" /\ pc = "start"
    /\ op' = "create_basic_image"
    /\ LET resize == parse_resize(args)
           scale == "scale" \in DOMAIN args
           opened == open_image(files, "0")
       IN  IF resize.kind = "raise" THEN pc' = "failed" /\ ret' = resize /\ UNCHANGED design
           ELSE IF opened.kind = "raise"
           THEN /\ pc' = "failed" /\ UNCHANGED design
                /\ ret' = IF opened.error.cls = "WandException"
                          THEN Raise([cls |-> "InvalidImageError"])
                          ELSE Raise([cls |-> "MissingLayerError", layer |-> BasicDesign_external_layers[1]])
           ELSE IF resize.kind = "unbound"         \* if resize is not None: resize was never assigned
           THEN /\ pc' = "failed" /\ UNCHANGED design
                /\ ret' = Raise([cls |-> "UnboundLocalError", name |-> "resize"])
           ELSE LET \* a resize that was assigned is a tuple, never None
                    im == IF ~scale THEN transform(opened.value, resize.value) ELSE opened.value
                    e == TiledImageTooBigError(im)
                IN  IF e.num_tiles > MAX_DESIGN_TILES
                    THEN pc' = "failed" /\ ret' = Raise(e) /\ UNCHANGED design
                    ELSE pc' = "streaming" /\ ret' = NoRet /\ design' = BasicDesign(image_name, im)
    /\ UNCHANGED <<inputs, emitted, pending, requests>>

\* int(was_quantized)
int_bool(b) == IF b THEN 1 ELSE 0

\* (the line without the flag)
result_line_code_only(was_quantized, design_id_) == design_code(design_id_) \o <<"\n">>

\* f'{int(was_quantized)},{designs_api.design_code(design_id)}\n'
result_line(was_quantized, design_id_) ==
    str(int_bool(was_quantized)) \o <<",">> \o design_code(design_id_) \o <<"\n">>

\* gen() and format_created_design_results up to the first yield:
\* image_id = next(gen); yield str(image_id) + '\n'
format_created_design_results_first ==
    /\ unit = "create" /\ pc = "streaming"
    /\ IF results = <<>>
       THEN /\ pc' = "failed" /\ ret' = Raise([cls |-> "RuntimeError"])     \* StopIteration in a generator
            /\ UNCHANGED <<emitted, pending>>
       ELSE IF "raise" \in DOMAIN Head(results)
       THEN /\ pc' = "failed" /\ ret' = Raise(Head(results).raise)
            /\ UNCHANGED <<emitted, pending>>
       ELSE /\ emitted' = Append(emitted, str(Head(results).yield) \o <<"\n">>)
            /\ pending' = Tail(results)
            /\ pc' = "results" /\ UNCHANGED ret
    /\ UNCHANGED <<inputs, op, design, requests>>

\* format_created_design_results from one yield to the next: the next pair
\* of gen gives one line, the end of gen ends the response
format_created_design_results_next ==
    /\ unit = "create" /\ pc = "results"
    /\ IF pending = <<>>
       THEN pc' = "done" /\ ret' = Return(None) /\ UNCHANGED <<emitted, pending>>
       ELSE IF "raise" \in DOMAIN Head(pending)
       THEN /\ pc' = "failed" /\ ret' = Raise(Head(pending).raise)
            /\ UNCHANGED <<emitted, pending>>
       ELSE /\ emitted' = Append(emitted, result_line(Head(pending).yield[1], Head(pending).yield[2]))
            /\ pending' = Tail(pending)
            /\ UNCHANGED <<pc, ret>>
    /\ UNCHANGED <<inputs, op, design, requests>>

(* The uploads tried. *)

MaxResults == 2

ResizeInputs ==
    { <<"6", "4", "x", "6", "4">>, <<"3", "2", "x", "4", "8">>, <<"a", "b", "c">>,
      <<"6", "4">>, <<"1", "x", "2", "x", "3">>, <<"x">> }

CreateArgs ==
    {a @@ b : a \in {<<>>} \cup {[resize |-> r] : r \in ResizeInputs},
              b \in {<<>>, [scale |-> <<>>]}}

File(readable, size) == [readable |-> readable, size |-> size]

UploadSizes == {<<64, 64>>, <<128, 80>>, <<192, 92>>, <<256, 256>>, <<33, 200>>}

CreateFiles ==
    {<<>>, "0" :> File(FALSE, <<0, 0>>), "1" :> File(TRUE, <<64, 64>>)}
    \cup {"0" :> File(TRUE, sz) : sz \in UploadSizes}

Yield(v) == [yield |-> v]

\* what create_image can yield: an image id, then (was_quantized, design_id)
\* pairs; it may raise an error of the service instead of its next result
ResultPairs ==
    {Yield(<<q, d>>) : q \in BOOLEAN, d \in {<<18005>>, <<12345678, LimbBase - 1, 457>>}}

RECURSIVE PairSeqs(_)
PairSeqs(n) ==
    IF n = 0 THEN {<<>>}
    ELSE LET shorter == PairSeqs(n - 1)
         IN  shorter \cup {Append(q, x) : q \in {y \in shorter : Len(y) = n - 1}, x \in ResultPairs}

ResultInputs ==
    LET whole == {<<Yield(i)>> \o q : i \in {7, 1234}, q \in PairSeqs(MaxResults)}
        cut == UNION {{Append(SubSeq(q, 1, n), [raise |-> [cls |-> "InvalidDesignError"]]) :
                          n \in 0..Len(q)} : q \in whole}
    IN  whole \cup cut

InitCreate ==
    /\ unit = "create" /\ op = "idle" /\ ret = NoRet
    /\ args \in CreateArgs
    /\ files \in CreateFiles
    /\ image_name = Str(<<"a", "b">>)
    /\ results \in ResultInputs
    /\ pc = "start" /\ emitted = <<>> /\ pending = <<>> /\ design = None /\ requests = <<>>
    /\ type_code = ""
    /\ TilesIdle /\ CodeIdle /\ RenderIdle /\ ErrorsIdle

NextCreate ==
    create_basic_image \/ format_created_design_results_first \/ format_created_design_results_next

SpecCreate == InitCreate /\ [][NextCreate]_vars

(* Claims about uploads. *)

\* the line the i-th result is to give: the image id, or the pair's flag as
\* 0 or 1, a comma and the pair's design code
ExpectedLine(i) ==
    IF i = 1 THEN str(results[1].yield) \o <<"\n">>
    ELSE <<IF results[i].yield[1] THEN "1" ELSE "0", ",">>
         \o design_code(results[i].yield[2]) \o <<"\n">>

\* C11: the lines emitted are, in order, the line of the image id and the
\* line of each pair produced so far, each with the pair's flag as 0 or 1
\* next to its design code; when the results end, every result has its line.
C11_OneLinePerResultInOrder ==
    unit = "create" =>
        /\ Len(emitted) <= Len(results)
        /\ \A i \in 1..Len(emitted) : "yield" \in DOMAIN results[i] /\ emitted[i] = ExpectedLine(i)
        /\ pc = "done" => Len(emitted) = Len(results)

C11_Witness ==
    /\ unit = "create" /\ pc = "done"
    /\ Len(results) = 3 /\ Len(emitted) = 3
    /\ results[2].yield[1] /\ ~results[3].yield[1]
    /\ results[2].yield[2] # results[3].yield[2]

\* a resize argument of two decimal numbers with an x between them
WellFormedResize(r) ==
    \E p \in 2..(Len(r) - 1) :
        /\ r[p] = "x"
        /\ \A i \in 1..Len(r) : i # p => r[i] \in DigitChars

\* C12: an upload without a file for slot '0', whose resize argument is absent
\* or well-formed, fails with the missing-layer error naming slot '0'; no
\* design is built and nothing is streamed.
C12_NoFileIsMissingLayer ==
    (unit = "create" /\ op = "create_basic_image" /\ "0" \notin DOMAIN files
        /\ ("resize" \in DOMAIN args => WellFormedResize(args.resize))) =>
        /\ pc = "failed"
        /\ ret.kind = "raise" /\ ret.error.cls = "MissingLayerError" /\ ret.error.layer.name = "0"
        /\ design = None /\ emitted = <<>>

C12_Witness ==
    /\ unit = "create" /\ op = "create_basic_image"
    /\ "resize" \notin DOMAIN args /\ files = <<>>
    /\ ret.kind = "raise" /\ ret.error.cls = "MissingLayerError"

\* C14: an upload with a readable image in slot '0' and either no resize
\* argument, or a well-formed one together with the scale flag, is validated
\* against the tile budget at its original size: the view ends with the design
\* built around the image as sent, or with a typed error of the service (the
\* too-large error counting the tiles of the image as sent).
C14_NoResizeReachesValidation ==
    (unit = "create" /\ op = "create_basic_image"
        /\ "0" \in DOMAIN files /\ files["0"].readable
        /\ \/ "resize" \notin DOMAIN args
           \/ WellFormedResize(args.resize) /\ "scale" \in DOMAIN args) =>
        \/ design = BasicDesign(image_name, files["0"].size)
        \/ /\ ret.kind = "raise" /\ ret.error.cls \in DOMAIN Classes
           /\ ret.error.cls = "TiledImageTooBigError" =>
                 ret.error = TiledImageTooBigError(files["0"].size)

-----------------------------------------------------------------------------
(* _download_design on its own, and the routes that look a design up by    *)
(* its code: api.design, api.design_layer and frontend.design here,        *)
(* api.design_archive above.                                               *)

\* _download_design(token, design_code)
download_design_call ==
    /\ unit = "fetch" /\ op = "idle"
    /\ \E total \in 0..MaxTotal :
          LET data == download_design_(pattern_code, total, Document)
          IN  requests' = data.sent /\ ret' = data.result
    /\ op' = "_download_design"
    /\ UNCHANGED <<inputs, pc, emitted, pending, design>>

\* api.design(design_code)
api_design ==
    /\ unit = "routes" /\ op = "idle"
    /\ op' = "api.design"
    /\ LET valid == InvalidFormatError_validate(pattern_code)
       IN  IF valid.kind = "raise" THEN ret' = valid /\ UNCHANGED requests
           ELSE \E total \in 0..MaxTotal :
                   LET data == download_design_(pattern_code, total, Document)
                   IN  requests' = data.sent /\ ret' = data.result
    /\ UNCHANGED <<inputs, pc, emitted, pending, design>>

\* api.design_layer(design_code, layer), layer the decimal str(layer_i)
design_layer ==
    /\ unit = "routes" /\ op = "idle"
    /\ op' = "api.design_layer"
    /\ LET valid == InvalidFormatError_validate(pattern_code)
       IN  IF valid.kind = "raise" THEN ret' = valid /\ UNCHANGED requests
           ELSE \E total \in 0..MaxTotal :
                   LET data == download_design_(pattern_code, total, Document)
                       rendered == IF data.result.kind = "raise" THEN data.result
                                   ELSE render_layer(data.result.value.mData, int(str(layer_i)))
                       scaled == IF rendered.kind = "raise" THEN rendered
                                 ELSE maybe_scale(args, rendered.value)
                   IN  /\ requests' = data.sent
                       /\ ret' = IF scaled.kind = "raise" THEN scaled
                                 ELSE Return([mimetype |-> "image/png", out |-> scaled.value])
    /\ UNCHANGED <<inputs, pc, emitted, pending, design>>

\* frontend.design(design_code)
frontend_design ==
    /\ unit = "routes" /\ op = "idle"
    /\ op' = "frontend.design"
    /\ \E total \in 0..MaxTotal :
          LET data == download_design_(pattern_code, total, Document)
          IN  /\ requests' = data.sent
              /\ ret' = IF data.result.kind = "raise" THEN data.result
                        ELSE Return([template |-> "design.html", design_code |-> pattern_code])
    /\ UNCHANGED <<inputs, pc, emitted, pending, design>>

(* The codes tried. *)

ACode == <<"B", "9", "X", "K", "-", "Y", "Y", "Y", "Y", "-", "0", "N", "0", "5">>

FetchCodes == WellFormed \cup Replaced(ACode) \cup Deleted(ACode) \cup Shapes(ACode)

RouteCodes ==
    {ACode, <<"0", "0", "0", "0", "-", "0", "0", "0", "0", "-", "0", "0", "0", "0">>}
    \cup Shapes(ACode)
    \cup {[ACode EXCEPT ![p] = c] : p \in {1, 5, 14}, c \in {"-", "Z", "b", "0"}}

InitFetch ==
    /\ unit = "fetch" /\ op = "idle" /\ ret = NoRet
    /\ pattern_code \in FetchCodes /\ id = <<>>
    /\ TilesIdle /\ RenderIdle /\ ErrorsIdle /\ ArchiveIdle /\ CreateIdle

NextFetch == download_design_call

SpecFetch == InitFetch /\ [][NextFetch]_vars

InitRoutes ==
    \/ InitArchive
    \/ /\ unit = "routes" /\ op = "idle" /\ ret = NoRet
       /\ pattern_code \in RouteCodes /\ id = <<>>
       /\ args \in ArchiveArgs
       /\ type_code = "BasicDesign.type_code"
       /\ raw_image \in ArchiveBodies
       /\ layer_i \in 0..MaxLayerIndex
       /\ pc = "idle" /\ emitted = <<>> /\ pending = <<>> /\ requests = <<>>
       /\ TilesIdle /\ ErrorsIdle /\ CreateIdle

NextRoutes == api_design \/ design_layer \/ frontend_design \/ NextArchive

SpecRoutes == InitRoutes /\ [][NextRoutes]_vars

(* Claims about fetching. *)

\* a route has run on the request
RouteRan == unit \in {"routes", "archive"} /\ op # "idle"

\* C15: on every route that looks a design up by its code, a code that is not
\* of the 4-4-4 alphabet shape ends with the invalid-design-code error, and
\* no request has been sent to the remote service for it.
C15_ValidationPrecedesFetch ==
    (RouteRan /\ ~regex_fullmatch(pattern_code)) =>
        /\ requests = <<>>
        /\ ret = Raise([cls |-> "InvalidDesignCodeError"])

Sent(kind) == {i \in 1..Len(requests) : requests[i].request = kind}

\* C16: the listing request is the first request of a call and the body
\* request follows only a listing that reported exactly one design; a total
\* of 0 ends with UnknownDesignCodeError and a total above 1 with RuntimeError,
\* both without a body request; at most two requests are sent, and a document
\* is returned only after the body request.
C16_ListingThenBodyOnlyIfOne ==
    (unit = "fetch" /\ op = "_download_design") =>
        /\ Len(requests) <= 2
        /\ Sent("listing") \subseteq {1} /\ Sent("body") \subseteq {2}
        /\ Sent("body") # {} => requests[1].total = 1
        /\ (requests # <<>> /\ requests[1].total = 0) =>
              ret = Raise([cls |-> "UnknownDesignCodeError"]) /\ Sent("body") = {}
        /\ (requests # <<>> /\ requests[1].total > 1) =>
              ret = Raise([cls |-> "RuntimeError"]) /\ Sent("body") = {}
        /\ ret.kind = "return" => Sent("body") = {2}

C16_Witness ==
    /\ unit = "fetch" /\ op = "_download_design"
    /\ pattern_code = ACode
    /\ requests = <<Listing(design_id(ACode).value, 1), BodyRequest>>
    /\ ret = Return(Document)

-----------------------------------------------------------------------------

Init == InitTiles \/ InitCode \/ InitRender \/ InitErrors \/ InitArchive \/ InitName \/ InitCreate \/ InitFetch \/ InitRoutes
Next == NextTiles \/ NextCode \/ NextRender \/ NextErrors \/ NextArchive \/ NextName \/ NextCreate \/ NextFetch \/ NextRoutes
Spec == Init /\ [][Next]_vars

====
